---------------------------- MODULE Spec2Model ----------------------------
(***************************************************************************)
(* Model of jetconf/data.py: BaseDatastore / JsonDatastore.                *)
(*                                                                         *)
(* The datastore holds one reference _data to an immutable instance tree.  *)
(* Every *_rpc method reads that reference, computes a new tree and        *)
(* assigns the reference.  Each method is cut into steps at the points     *)
(* where it reads or writes shared state, so that callers can interleave.  *)
(***************************************************************************)
EXTENDS Integers, Sequences, FiniteSets, TLC

VARIABLES
    data,        \* BaseDatastore._data: the published root (an instance value)
    nacm,        \* BaseDatastore.nacm is set (register_nacm was called)
    receivers,   \* dispatcher connections: schema node -> listeners, in connect order
    handlers,    \* STATE_DATA_HANDLES: state schema paths that have a provider
    lockHeld,    \* BaseDatastore._data_lock is held
    lockUser,    \* BaseDatastore._lock_username
    lockOwner,   \* the caller whose acquire holds _data_lock ("" when it is free)
    pc,          \* per caller: position inside the method it is executing
    frame,       \* per caller: arguments, locals and outcome of that method
    ncalls       \* number of method calls started so far

vars == <<data, nacm, receivers, handlers, lockHeld, lockUser, lockOwner, pc, frame, ncalls>>

(* The lock and its recorded holder. *)
lockVars == <<lockHeld, lockUser, lockOwner>>

---------------------------------------------------------------------------
(* Bounds of the model *)

MaxCalls == 2
MaxReg == 3

Threads == {"t1", "t2"}
Listeners == {"L1", "L2"}

---------------------------------------------------------------------------
(* Instance values (yangson.instance): ObjectValue, ArrayValue, scalars,   *)
(* and Python's None for a datastore that holds no tree.                   *)

NoneVal == [t |-> "none"]
Leaf(v) == [t |-> "leaf", v |-> v]
Arr(e) == [t |-> "arr", e |-> e]
Obj(m) == [t |-> "obj", m |-> m]

IsObj(x) == x.t = "obj"
IsArr(x) == x.t = "arr"

(* Raw values as received from the client or read from a file: plain       *)
(* Python dict / list / str, before DataModel.from_raw.                    *)
RawNone == [r |-> "none"]
RStr(v) == [r |-> "str", s |-> v]
RList(e) == [r |-> "list", l |-> e]
RDict(m) == [r |-> "dict", d |-> m]

(* Instance identifier selectors: MemberName, EntryKeys, EntryIndex. *)
MemberName(n) == [k |-> "member", name |-> n]
EntryKeys(ks) == [k |-> "keys", keys |-> ks]
EntryIndex(i) == [k |-> "index", index |-> i]

---------------------------------------------------------------------------
(* The schema (yangson DataModel).  A schema node is named by its schema   *)
(* path; <<>> is the schema root, whose parent is None.                    *)

SchemaNodes ==
    { <<>>, <<"srv">>, <<"srv", "descr">>, <<"srv", "zone">>,
      <<"srv", "zone", "domain">>, <<"srv", "zone", "view">>,
      <<"srv", "tag">>, <<"srv", "stats">>, <<"srv", "uptime">> }

SchemaKind(sn) ==
    CASE sn = <<>> -> "container"
      [] sn = <<"srv">> -> "container"
      [] sn = <<"srv", "zone">> -> "list"
      [] sn = <<"srv", "tag">> -> "leaflist"
      [] OTHER -> "leaf"

(* ListNode.keys: the key leaves of a list, in schema order. *)
ListKeys(sn) == IF sn = <<"srv", "zone">> THEN <<"domain", "view">> ELSE <<>>

(* Schema nodes that carry state data (config false). *)
StateNodes == { <<"srv", "stats">>, <<"srv", "uptime">> }

IsPrefix(p, q) == Len(p) <= Len(q) /\ SubSeq(q, 1, Len(p)) = p

---------------------------------------------------------------------------
(* Navigation in an instance tree (yangson Instance: goto, member, up,     *)
(* update, top).  An Instance is a value together with its place in the    *)
(* tree; the place is kept as a concrete path of member and entry steps.   *)

MStep(n) == [name |-> n, idx |-> 0]
EStep(i) == [name |-> "", idx |-> i]

(* The value reached from v by one concrete step. *)
Child(v, st) == IF st.idx = 0 THEN v.m[st.name] ELSE v.e[st.idx]

RECURSIVE ValAt(_, _)
ValAt(v, path) ==
    IF path = <<>> THEN v ELSE ValAt(Child(v, Head(path)), Tail(path))

(* The tree that has nv at path and is v elsewhere: Instance.update(nv)    *)
(* followed by top().  Only the nodes along path are rebuilt.              *)
RECURSIVE Put(_, _, _)
Put(v, path, nv) ==
    IF path = <<>> THEN nv
    ELSE LET st == Head(path)
             sub == Put(Child(v, st), Tail(path), nv)
         IN IF st.idx = 0
            THEN Obj([v.m EXCEPT ![st.name] = sub])
            ELSE Arr([v.e EXCEPT ![st.idx] = sub])

(* Does array entry en match the keys of an EntryKeys selector? *)
KeysMatch(en, ks) ==
    /\ IsObj(en)
    /\ \A k \in DOMAIN ks : k \in DOMAIN en.m /\ en.m[k] = Leaf(ks[k])

MatchingEntries(v, ks) == { i \in 1..Len(v.e) : KeysMatch(v.e[i], ks) }

Min(S) == CHOOSE x \in S : \A y \in S : x <= y

(* One selector applied to value v (MemberName / EntryKeys / EntryIndex    *)
(* .goto_step): the concrete step, or the exception it raises.             *)
GotoStep(v, sel) ==
    CASE sel.k = "member" ->
            IF ~IsObj(v) THEN [err |-> "TypeMismatch", st |-> MStep("")]
            ELSE IF sel.name \notin DOMAIN v.m
                 THEN [err |-> "NotFound", st |-> MStep("")]
                 ELSE [err |-> "", st |-> MStep(sel.name)]
      [] sel.k = "keys" ->
            IF ~IsArr(v) THEN [err |-> "TypeMismatch", st |-> MStep("")]
            ELSE IF MatchingEntries(v, sel.keys) = {}
                 THEN [err |-> "NotFound", st |-> MStep("")]
                 ELSE [err |-> "", st |-> EStep(Min(MatchingEntries(v, sel.keys)))]
      [] OTHER ->
            IF ~IsArr(v) THEN [err |-> "TypeMismatch", st |-> MStep("")]
            ELSE IF sel.index + 1 > Len(v.e)
                 THEN [err |-> "NotFound", st |-> MStep("")]
                 ELSE [err |-> "", st |-> EStep(sel.index + 1)]

(* Instance.goto(ii) from the top of tree v: the concrete path of the      *)
(* addressed node, or the exception.  A datastore without a tree (None)    *)
(* has no goto: Python raises AttributeError.                              *)
RECURSIVE GotoFrom(_, _, _)
GotoFrom(v, ii, acc) ==
    IF ii = <<>> THEN [err |-> "", path |-> acc]
    ELSE LET g == GotoStep(v, Head(ii))
         IN IF g.err # "" THEN [err |-> g.err, path |-> <<>>]
            ELSE GotoFrom(Child(v, g.st), Tail(ii), Append(acc, g.st))

goto(root, ii) ==
    IF root = NoneVal THEN [err |-> "Error", path |-> <<>>]
    ELSE GotoFrom(root, ii, <<>>)

(* Schema node of an instance identifier (get_schema_node_ii): only the    *)
(* member steps descend in the schema.                                     *)
RECURSIVE SchemaOf(_)
SchemaOf(ii) ==
    IF ii = <<>> THEN <<>>
    ELSE LET rest == SchemaOf(SubSeq(ii, 1, Len(ii) - 1))
             last == ii[Len(ii)]
         IN IF last.k = "member" THEN Append(rest, last.name) ELSE rest

(* Variant: the entries after the i-th go as well. *)
RemoveAtTail(s, i) == SubSeq(s, 1, i - 1)

(* Sequence s without its i-th element / with x put before position i. *)
RemoveAt(s, i) == SubSeq(s, 1, i - 1) \o SubSeq(s, i + 1, Len(s))
InsertAt(s, i, x) == SubSeq(s, 1, i - 1) \o <<x>> \o SubSeq(s, i, Len(s))

(* The function f without the argument a (ObjectValue without a member). *)
Without(f, a) == [x \in DOMAIN f \ {a} |-> f[x]]
With(f, a, y) == [x \in DOMAIN f \cup {a} |-> IF x = a THEN y ELSE f[x]]

---------------------------------------------------------------------------
(* DataModel.from_raw: raw (dict / list / str) to typed instance values,   *)
(* checked against the schema node sn.  A list or leaf-list takes a raw    *)
(* list, a container or list entry a raw dict whose members the schema     *)
(* knows, a leaf a raw scalar.  Anything else raises.                      *)

RECURSIVE RawValid(_, _, _)
RawValid(sn, raw, entry) ==
    LET kind == SchemaKind(sn)
    IN CASE kind = "leaf" -> raw.r = "str"
         [] kind = "leaflist" /\ ~entry ->
                raw.r = "list" /\ \A i \in 1..Len(raw.l) : raw.l[i].r = "str"
         [] kind = "list" /\ ~entry ->
                raw.r = "list" /\ \A i \in 1..Len(raw.l) : RawValid(sn, raw.l[i], TRUE)
         [] kind = "leaflist" /\ entry -> raw.r = "str"
         [] OTHER ->
                /\ raw.r = "dict"
                /\ \A n \in DOMAIN raw.d :
                      /\ Append(sn, n) \in SchemaNodes
                      /\ RawValid(Append(sn, n), raw.d[n], FALSE)

RECURSIVE RawConv(_, _, _)
RawConv(sn, raw, entry) ==
    LET kind == SchemaKind(sn)
    IN CASE kind = "leaf" -> Leaf(raw.s)
         [] kind = "leaflist" /\ ~entry ->
                Arr([i \in 1..Len(raw.l) |-> Leaf(raw.l[i].s)])
         [] kind = "list" /\ ~entry ->
                Arr([i \in 1..Len(raw.l) |-> RawConv(sn, raw.l[i], TRUE)])
         [] kind = "leaflist" /\ entry -> Leaf(raw.s)
         [] OTHER ->
                Obj([n \in DOMAIN raw.d |-> RawConv(Append(sn, n), raw.d[n], FALSE)])

(* from_raw of the document node2doc builds around a value for the node    *)
(* sn, and the value picked out of it again: the typed value, or failure.  *)
from_raw(sn, raw) ==
    IF RawValid(sn, raw, FALSE)
    THEN [err |-> "", v |-> RawConv(sn, raw, FALSE)]
    ELSE [err |-> "InvalidPayload", v |-> NoneVal]

---------------------------------------------------------------------------
(* Path parsing (parse_ii): DataModel.parse_resource_id for URL paths,     *)
(* DataModel.parse_instance_id for XPATH paths.                            *)

ZoneKeys(d, v) == EntryKeys([domain |-> d, view |-> v])

parse_resource_id(path) ==
    CASE path = "/srv" -> [err |-> "", ii |-> <<MemberName("srv")>>]
      [] path = "/srv/descr" ->
            [err |-> "", ii |-> <<MemberName("srv"), MemberName("descr")>>]
      [] path = "/srv/zone" ->
            [err |-> "", ii |-> <<MemberName("srv"), MemberName("zone")>>]
      [] path = "/srv/zone=A,1" ->
            [err |-> "", ii |-> <<MemberName("srv"), MemberName("zone"), ZoneKeys("A", "1")>>]
      [] path = "/srv/zone=B,1" ->
            [err |-> "", ii |-> <<MemberName("srv"), MemberName("zone"), ZoneKeys("B", "1")>>]
      [] path = "/srv/tag" ->
            [err |-> "", ii |-> <<MemberName("srv"), MemberName("tag")>>]
      [] path = "/srv/stats" ->
            [err |-> "", ii |-> <<MemberName("srv"), MemberName("stats")>>]
      [] OTHER -> [err |-> "InvalidPath", ii |-> <<>>]

parse_instance_id(path) ==
    CASE path = "/srv/zone[1]" ->
            [err |-> "", ii |-> <<MemberName("srv"), MemberName("zone"), EntryIndex(0)>>]
      [] path = "/srv/zone[2]" ->
            [err |-> "", ii |-> <<MemberName("srv"), MemberName("zone"), EntryIndex(1)>>]
      [] OTHER -> [err |-> "InvalidPath", ii |-> <<>>]

parse_ii(path, path_format) ==
    IF path_format = "URL" THEN parse_resource_id(path) ELSE parse_instance_id(path)

---------------------------------------------------------------------------
(* The policy engine (NacmConfig.get_user_nacm(user).check_data_node_path, *)
(* check_rpc_name): user "guest" is denied every permission, "admin" none. *)

Users == {"admin", "guest"}

NacmDeny(username, perm) == username = "guest"

(* OP_HANDLERS: the operations that have a handler. *)
OpHandlers == {"op1"}

---------------------------------------------------------------------------
(* What the body of a method computes before it publishes: the outcome     *)
(* (err = "" when no exception is raised) and the tree it will publish.    *)

Raise(e) == [err |-> e, new |-> NoneVal]
Result(v) == [err |-> "", new |-> v]

NoInsert == "None"

(* Variant: before and after both put the entry after the one found. *)
InsertIntoListAfter(root, mpath, ex, nd, key, insert, point) ==
    IF insert = "first" THEN Result(Put(root, mpath, Arr(<<nd>> \o ex.e)))
    ELSE IF insert = "last" \/ insert = NoInsert
    THEN Result(Put(root, mpath, Arr(ex.e \o <<nd>>)))
    ELSE IF insert = "before" \/ insert = "after"
    THEN LET g == GotoStep(ex, EntryKeys((key :> point)))
         IN IF g.err # "" THEN Raise(g.err)
            ELSE Result(Put(root, mpath, Arr(InsertAt(ex.e, g.st.idx + 1, nd))))
    ELSE Result(root)

(* create_node_rpc, the list branch: the entry nd put into list ex. *)
InsertIntoList(root, mpath, ex, nd, key, insert, point) ==
    IF insert = "first" THEN Result(Put(root, mpath, Arr(<<nd>> \o ex.e)))
    ELSE IF insert = "last" \/ insert = NoInsert
    THEN Result(Put(root, mpath, Arr(ex.e \o <<nd>>)))
    ELSE IF insert = "before" \/ insert = "after"
    THEN LET g == GotoStep(ex, EntryKeys((key :> point)))
         IN IF g.err # "" THEN Raise(g.err)
            ELSE IF insert = "before"
                 THEN Result(Put(root, mpath, Arr(InsertAt(ex.e, g.st.idx, nd))))
                 ELSE Result(Put(root, mpath, Arr(InsertAt(ex.e, g.st.idx + 1, nd))))
    ELSE Result(root)

(* create_node_rpc, the leaf-list branch. *)
InsertIntoLeafList(root, mpath, ex, nd, insert) ==
    IF insert = "first" THEN Result(Put(root, mpath, Arr(<<nd>> \o ex.e)))
    ELSE IF insert = "last" \/ insert = NoInsert
    THEN Result(Put(root, mpath, Arr(ex.e \o <<nd>>)))
    ELSE Result(root)

(* The key of the list that the duplicate check compares. *)
DupKey(sn) == ListKeys(sn)[1]

(* An entry with the same value of the compared key is already in the list. *)
KeyPresent(ex, nd, key) ==
    \E i \in 1..Len(ex.e) : ex.e[i].m[key] = nd.m[key]

(* Variant: only an empty object is refused. *)
BadMemberCountEmpty(value) == Cardinality(DOMAIN value.d) = 0

(* Line 250: the received object does not hold exactly one member. *)
BadMemberCount(value) == Cardinality(DOMAIN value.d) # 1

(* create_node_rpc up to, not including, the assignment of _data. *)
CreateBody(root, nacmOn, rpc, value, insert, point) ==
    LET p == parse_ii(rpc.path, rpc.path_format)
    IN IF p.err # "" THEN Raise(p.err)
    ELSE LET g == goto(root, p.ii)
    IN IF g.err # "" THEN Raise(g.err)
    ELSE IF nacmOn /\ NacmDeny(rpc.username, "create") THEN Raise("AccessDenied")
    ELSE IF BadMemberCount(value) THEN Raise("InvalidPayload")
    ELSE LET name == CHOOSE x \in DOMAIN value.d : TRUE
             mv == value.d[name]
             n == ValAt(root, g.path)
             msn == Append(SchemaOf(p.ii), name)
             mpath == Append(g.path, MStep(name))
    IN IF ~IsObj(n) THEN Raise("TypeMismatch")
    ELSE IF name \notin DOMAIN n.m
    THEN LET c == from_raw(msn, mv)
         IN IF msn \notin SchemaNodes \/ c.err # "" THEN Raise("InvalidPayload")
            ELSE Result(Put(root, g.path, Obj(With(n.m, name, c.v))))
    ELSE IF IsArr(n.m[name])
    THEN LET c == from_raw(msn, RList(<<mv>>))
         IN IF c.err # "" THEN Raise(c.err)
            ELSE IF SchemaKind(msn) = "list"
            THEN IF KeyPresent(n.m[name], c.v.e[1], DupKey(msn))
                 THEN Raise("DuplicateEntry")
                 ELSE InsertIntoList(root, mpath, n.m[name], c.v.e[1],
                                     DupKey(msn), insert, point)
            ELSE IF SchemaKind(msn) = "leaflist"
            THEN InsertIntoLeafList(root, mpath, n.m[name], c.v.e[1], insert)
            ELSE Raise("TypeMismatch")
    ELSE Raise("DuplicateEntry")

(* The typed value update_node_rpc puts at ii: the value converted for     *)
(* the schema node of ii, as a list entry when ii ends in an entry         *)
(* selector.                                                               *)
ConvertAt(ii, value) ==
    LET sn == SchemaOf(ii)
        entry == ii[Len(ii)].k # "member"
    IN IF RawValid(sn, value, entry)
       THEN [err |-> "", v |-> RawConv(sn, value, entry)]
       ELSE [err |-> "InvalidPayload", v |-> NoneVal]

(* Variant: a new array is appended to the old one. *)
UpdateBodyMerge(root, nacmOn, rpc, value) ==
    LET p == parse_ii(rpc.path, rpc.path_format)
    IN IF p.err # "" THEN Raise(p.err)
    ELSE LET g == goto(root, p.ii)
    IN IF g.err # "" THEN Raise(g.err)
    ELSE IF nacmOn /\ NacmDeny(rpc.username, "update") THEN Raise("AccessDenied")
    ELSE LET c == ConvertAt(p.ii, value)
             old == ValAt(root, g.path)
    IN IF c.err # "" THEN Raise(c.err)
       ELSE IF IsArr(old) /\ IsArr(c.v)
            THEN Result(Put(root, g.path, Arr(old.e \o c.v.e)))
            ELSE Result(Put(root, g.path, c.v))

(* update_node_rpc up to, not including, the assignment of _data. *)
UpdateBody(root, nacmOn, rpc, value) ==
    LET p == parse_ii(rpc.path, rpc.path_format)
    IN IF p.err # "" THEN Raise(p.err)
    ELSE LET g == goto(root, p.ii)
    IN IF g.err # "" THEN Raise(g.err)
    ELSE IF nacmOn /\ NacmDeny(rpc.username, "update") THEN Raise("AccessDenied")
    ELSE LET c == ConvertAt(p.ii, value)
    IN IF c.err # "" THEN Raise(c.err)
       ELSE Result(Put(root, g.path, c.v))

(* delete_node_rpc up to, not including, the assignment of _data. *)
DeleteBody(root, nacmOn, rpc) ==
    LET p == parse_ii(rpc.path, rpc.path_format)
    IN IF p.err # "" THEN Raise(p.err)
    ELSE LET g == goto(root, p.ii)
    IN IF g.err # "" THEN Raise(g.err)
    ELSE IF g.path = <<>> THEN Raise("NotFound")
    ELSE LET ppath == SubSeq(g.path, 1, Len(g.path) - 1)
             parent == ValAt(root, ppath)
             last_isel == p.ii[Len(p.ii)]
             nstep == g.path[Len(g.path)]
    IN IF nacmOn /\ NacmDeny(rpc.username, "delete") THEN Raise("AccessDenied")
    ELSE IF IsArr(parent)
    THEN IF last_isel.k = "index"
         THEN Result(Put(root, ppath, Arr(RemoveAt(parent.e, last_isel.index + 1))))
         ELSE IF last_isel.k = "keys"
         THEN Result(Put(root, ppath, Arr(RemoveAt(parent.e, nstep.idx))))
         ELSE Result(root)
    ELSE IF IsObj(parent)
    THEN IF last_isel.k = "member"
         THEN Result(Put(root, ppath, Obj(Without(parent.m, last_isel.name))))
         ELSE Result(root)
    ELSE Raise("TypeMismatch")

---------------------------------------------------------------------------
(* Callers.  frame[t] holds the arguments and locals of the method caller  *)
(* t is executing, and its outcome once it is about to return.             *)

(* Python's None where a user name is expected. *)
NoUser == "<None>"

NoRpc ==
    [username |-> "", path |-> "", path_format |-> "URL",
     skip_nacm_check |-> FALSE, op_name |-> "", op_input_args |-> NoneVal]

IdleFrame ==
    [op |-> "none", rpc |-> NoRpc, value |-> RawNone, insert |-> NoInsert,
     point |-> "", ii |-> <<>>, root0 |-> NoneVal, loc |-> NoneVal,
     sn |-> <<>>, todo |-> <<>>, out |-> "", visited |-> <<>>, log |-> <<>>,
     blocking |-> FALSE, held0 |-> FALSE, user0 |-> NoUser, msg |-> NoUser,
     snap |-> NoneVal, called |-> FALSE, ret_data |-> NoneVal]

(* The state after construction: BaseDatastore.__init__.  The handler      *)
(* registries are process-wide and filled by the application.              *)
Init ==
    /\ data = NoneVal
    /\ nacm = FALSE
    /\ receivers = [sn \in SchemaNodes |-> <<>>]
    /\ handlers \in {{<<"srv", "stats">>}, StateNodes}
    /\ lockHeld = FALSE
    /\ lockUser = NoUser
    /\ lockOwner = ""
    /\ pc = [t \in Threads |-> "idle"]
    /\ frame = [t \in Threads |-> IdleFrame]
    /\ ncalls = 0

(* A method call begins: its frame, with the outcome of its body. *)
Enter(t, op, rpc, value, insert, point, r) ==
    /\ pc[t] = "idle"
    /\ ncalls < MaxCalls
    /\ ncalls' = ncalls + 1
    /\ frame' = [frame EXCEPT ![t] =
                    [IdleFrame EXCEPT !.op = op, !.rpc = rpc, !.value = value,
                                      !.insert = insert, !.point = point,
                                      !.ii = parse_ii(rpc.path, rpc.path_format).ii,
                                      !.root0 = data, !.loc = r.new, !.out = r.err,
                                      !.held0 = lockHeld, !.user0 = lockUser]]
    /\ pc' = [pc EXCEPT ![t] = IF r.err = "" THEN "publish" ELSE "ret"]

(* register_nacm, called by t between two of its other calls. *)
register_nacm(t) ==
    /\ pc[t] = "idle"
    /\ nacm' = TRUE
    /\ UNCHANGED <<data, receivers, handlers, lockVars, pc, frame, ncalls>>

RECURSIVE SumLen(_, _)
SumLen(f, S) ==
    IF S = {} THEN 0
    ELSE LET x == CHOOSE y \in S : TRUE IN Len(f[x]) + SumLen(f, S \ {x})

(* The number of connections made so far. *)
NumReg == SumLen(receivers, SchemaNodes)

(* Variant: a second connect of the same listener adds it a second time. *)
ConnectDup(rs, l) == Append(rs, l)

(* dispatcher.connect puts the listener last among the receivers of the    *)
(* schema node's signal, once.                                             *)
Connect(rs, l) == SelectSeq(rs, LAMBDA x : x # l) \o <<l>>

(* BaseDataListener.add_schema_node for listener l, called by t between    *)
(* two of its other calls.                                                 *)
add_schema_node(t, l, sch_pth) ==
    /\ pc[t] = "idle"
    /\ sch_pth \in SchemaNodes
    /\ NumReg < MaxReg
    /\ receivers' = [receivers EXCEPT ![sch_pth] = Connect(@, l)]
    /\ UNCHANGED <<data, nacm, handlers, lockVars, pc, frame, ncalls>>

(* create_node_rpc, lines up to the publish. *)
create_node_rpc(t, rpc, value, insert, point) ==
    /\ Enter(t, "create", rpc, value, insert, point,
             CreateBody(data, nacm, rpc, value, insert, point))
    /\ UNCHANGED <<data, nacm, receivers, handlers, lockVars>>

(* Variant: update does not ask the policy engine. *)
update_node_rpc_unchecked(t, rpc, value) ==
    /\ Enter(t, "update", rpc, value, NoInsert, "",
             UpdateBody(data, FALSE, rpc, value))
    /\ UNCHANGED <<data, nacm, receivers, handlers, lockVars>>

(* update_node_rpc, lines up to the publish. *)
update_node_rpc(t, rpc, value) ==
    /\ Enter(t, "update", rpc, value, NoInsert, "",
             UpdateBody(data, nacm, rpc, value))
    /\ UNCHANGED <<data, nacm, receivers, handlers, lockVars>>

(* Variant: the tree without the node is assigned before the policy engine *)
(* is asked.                                                               *)
delete_node_rpc_eager(t, rpc) ==
    /\ Enter(t, "delete", rpc, RawNone, NoInsert, "",
             DeleteBody(data, nacm, rpc))
    /\ data' = IF DeleteBody(data, FALSE, rpc).err = ""
               THEN DeleteBody(data, FALSE, rpc).new ELSE data
    /\ UNCHANGED <<nacm, receivers, handlers, lockVars>>

(* delete_node_rpc, lines up to the publish. *)
delete_node_rpc(t, rpc) ==
    /\ Enter(t, "delete", rpc, RawNone, NoInsert, "",
             DeleteBody(data, nacm, rpc))
    /\ UNCHANGED <<data, nacm, receivers, handlers, lockVars>>

(* Variant: the assignment waits for the lock to be free. *)
PublishLocked(t) ==
    /\ pc[t] = "publish"
    /\ ~lockHeld
    /\ data' = frame[t].loc
    /\ IF frame[t].op \in {"create", "update"}
       THEN /\ pc' = [pc EXCEPT ![t] = "notify"]
            /\ frame' = [frame EXCEPT ![t].sn = <<SchemaOf(frame[t].ii)>>]
       ELSE /\ pc' = [pc EXCEPT ![t] = "ret"]
            /\ frame' = [frame EXCEPT ![t].out = "ok"]
    /\ UNCHANGED <<nacm, receivers, handlers, lockVars, ncalls>>

(* Variant: delete goes on to notify_edit as create and update do. *)
PublishNotifyAll(t) ==
    /\ pc[t] = "publish"
    /\ data' = frame[t].loc
    /\ pc' = [pc EXCEPT ![t] = "notify"]
    /\ frame' = [frame EXCEPT ![t].sn = <<SchemaOf(frame[t].ii)>>]
    /\ UNCHANGED <<nacm, receivers, handlers, lockVars, ncalls>>

(* self._data = new_n.top(); create and update go on to notify_edit(ii),   *)
(* whose first line fetches the schema node of ii; delete returns.         *)
Publish(t) ==
    /\ pc[t] = "publish"
    /\ data' = frame[t].loc
    /\ IF frame[t].op \in {"create", "update"}
       THEN /\ pc' = [pc EXCEPT ![t] = "notify"]
            /\ frame' = [frame EXCEPT ![t].sn = <<SchemaOf(frame[t].ii)>>]
       ELSE /\ pc' = [pc EXCEPT ![t] = "ret"]
            /\ frame' = [frame EXCEPT ![t].out = "ok"]
    /\ UNCHANGED <<nacm, receivers, handlers, lockVars, ncalls>>

(* The listeners dispatcher.send reaches at one level when the failed-th   *)
(* of them raises (0: none raises): those before it, and itself.           *)
Invoked(rs, failed) == IF failed = 0 THEN rs ELSE SubSeq(rs, 1, failed)

(* What each invoked listener's process(sn, ii) is given, and whether the  *)
(* root it can read at that moment is the tree this call computed.         *)
LogEntries(rs, sn, ii, fresh) ==
    [i \in 1..Len(rs) |-> [l |-> rs[i], sn |-> sn, ii |-> ii, fresh |-> fresh]]

(* Variant: a listener's exception puts back the root the call started     *)
(* from.                                                                   *)
notify_edit_rollback(t, failed) ==
    /\ pc[t] = "notify"
    /\ LET sn == frame[t].sn[1]
           rs == receivers[sn]
       IN /\ failed \in 0..Len(rs)
          /\ frame' = [frame EXCEPT
                ![t].visited = Append(@, sn),
                ![t].log = @ \o LogEntries(Invoked(rs, failed), sn, frame[t].ii,
                                           data = frame[t].loc),
                ![t].sn = IF failed # 0 \/ sn = <<>> THEN <<>>
                          ELSE <<SubSeq(sn, 1, Len(sn) - 1)>>,
                ![t].out = IF failed # 0 THEN "ListenerError"
                           ELSE IF sn = <<>> THEN "ok" ELSE ""]
          /\ pc' = [pc EXCEPT ![t] = IF failed # 0 \/ sn = <<>> THEN "ret" ELSE "notify"]
          /\ data' = IF failed # 0 THEN frame[t].root0 ELSE data
    /\ UNCHANGED <<nacm, receivers, handlers, lockVars, ncalls>>

(* notify_edit: one turn of the loop.  dispatcher.send calls the receivers *)
(* of the schema node's signal in order, on the caller's thread; an        *)
(* exception of a listener propagates out of the method.                   *)
notify_edit(t, failed) ==
    /\ pc[t] = "notify"
    /\ LET sn == frame[t].sn[1]
           rs == receivers[sn]
       IN /\ failed \in 0..Len(rs)
          /\ frame' = [frame EXCEPT
                ![t].visited = Append(@, sn),
                ![t].log = @ \o LogEntries(Invoked(rs, failed), sn, frame[t].ii,
                                           data = frame[t].loc),
                ![t].sn = IF failed # 0 \/ sn = <<>> THEN <<>>
                          ELSE <<SubSeq(sn, 1, Len(sn) - 1)>>,
                ![t].out = IF failed # 0 THEN "ListenerError"
                           ELSE IF sn = <<>> THEN "ok" ELSE ""]
          /\ pc' = [pc EXCEPT ![t] = IF failed # 0 \/ sn = <<>> THEN "ret" ELSE "notify"]
    /\ UNCHANGED <<data, nacm, receivers, handlers, lockVars, ncalls>>

(* The method returns or raises to its caller. *)
Return(t) ==
    /\ pc[t] = "ret"
    /\ pc' = [pc EXCEPT ![t] = "idle"]
    /\ frame' = [frame EXCEPT ![t] = IdleFrame]
    /\ UNCHANGED <<data, nacm, receivers, handlers, lockVars, ncalls>>

---------------------------------------------------------------------------
(* get_node_rpc *)

StateOrder == << <<"srv", "stats">>, <<"srv", "uptime">> >>

(* SchemaNode.state_roots(): the state subtrees at or below sn. *)
state_roots(sn) == SelectSeq(StateOrder, LAMBDA p : IsPrefix(sn, p))

(* A state data provider's update_node(ii, root).top(): the tree with the  *)
(* live value of state node sp, when the container that holds it exists.   *)
update_node(root, sp) ==
    LET ppath == [i \in 1..(Len(sp) - 1) |-> MStep(sp[i])]
        has == /\ root # NoneVal
               /\ goto(root, [i \in 1..(Len(sp) - 1) |-> MemberName(sp[i])]).err = ""
    IN IF has /\ IsObj(ValAt(root, ppath))
       THEN Put(root, ppath, Obj(With(ValAt(root, ppath).m, sp[Len(sp)], Leaf("live"))))
       ELSE root

(* Lines 157-160: parse the path, take the root, list the state roots. *)
get_node_rpc(t, rpc) ==
    /\ pc[t] = "idle"
    /\ ncalls < MaxCalls
    /\ ncalls' = ncalls + 1
    /\ LET p == parse_ii(rpc.path, rpc.path_format)
       IN /\ frame' = [frame EXCEPT ![t] =
                [IdleFrame EXCEPT !.op = "read", !.rpc = rpc, !.ii = p.ii,
                                  !.root0 = data, !.loc = data, !.out = p.err,
                                  !.todo = IF p.err = "" THEN state_roots(SchemaOf(p.ii))
                                           ELSE <<>>]]
          /\ pc' = [pc EXCEPT ![t] = IF p.err = "" THEN "states" ELSE "ret"]
    /\ UNCHANGED <<data, nacm, receivers, handlers, lockVars>>

(* Lines 161-169: one turn of the loop over the state roots.  With a       *)
(* provider its result becomes the local root and is assigned to _data;    *)
(* without one NoHandlerForStateDataError is raised.                       *)
read_state_root(t) ==
    /\ pc[t] = "states"
    /\ frame[t].todo # <<>>
    /\ LET sp == Head(frame[t].todo)
           nr == update_node(frame[t].loc, sp)
       IN IF sp \in handlers
          THEN /\ data' = nr
               /\ frame' = [frame EXCEPT ![t].loc = nr, ![t].todo = Tail(@)]
               /\ pc' = pc
          ELSE /\ data' = data
               /\ frame' = [frame EXCEPT ![t].out = "NoStateHandler"]
               /\ pc' = [pc EXCEPT ![t] = "ret"]
    /\ UNCHANGED <<nacm, receivers, handlers, lockVars, ncalls>>

(* Lines 171-182: assign the local root to _data, go to the node, then ask *)
(* the policy engine.                                                      *)
ReadOutcome(root, nacmOn, rpc, ii) ==
    IF goto(root, ii).err # "" THEN goto(root, ii).err
    ELSE IF nacmOn /\ NacmDeny(rpc.username, "read") THEN "AccessDenied"
    ELSE "ok"

read_node(t) ==
    /\ pc[t] = "states"
    /\ frame[t].todo = <<>>
    /\ data' = frame[t].loc
    /\ frame' = [frame EXCEPT ![t].out =
                    ReadOutcome(frame[t].loc, nacm, frame[t].rpc, frame[t].ii)]
    /\ pc' = [pc EXCEPT ![t] = "ret"]
    /\ UNCHANGED <<nacm, receivers, handlers, lockVars, ncalls>>

(* invoke_op_rpc *)

(* Variant: the policy engine is asked whatever the bypass flag says. *)
InvokeOutcomeNoBypass(nacmOn, rpc) ==
    IF nacmOn /\ NacmDeny(rpc.username, "exec")
    THEN "AccessDenied"
    ELSE IF rpc.op_name \notin OpHandlers THEN "NoHandler"
    ELSE "ok"

(* Lines 364-371: the policy check unless skip_nacm_check, then the lookup *)
(* of the handler.                                                         *)
InvokeOutcome(nacmOn, rpc) ==
    IF nacmOn /\ ~rpc.skip_nacm_check /\ NacmDeny(rpc.username, "exec")
    THEN "AccessDenied"
    ELSE IF rpc.op_name \notin OpHandlers THEN "NoHandler"
    ELSE "ok"

(* What the handler of an operation gives back for its input arguments. *)
op_handler(op_name, args) == Obj([op |-> Leaf(op_name), echo |-> args])

invoke_op_rpc(t, rpc) ==
    /\ pc[t] = "idle"
    /\ ncalls < MaxCalls
    /\ ncalls' = ncalls + 1
    /\ frame' = [frame EXCEPT ![t] =
            [IdleFrame EXCEPT !.op = "invoke", !.rpc = rpc, !.root0 = data,
                              !.out = InvokeOutcome(nacm, rpc),
                              !.called = InvokeOutcome(nacm, rpc) = "ok",
                              !.ret_data =
                                  IF InvokeOutcome(nacm, rpc) = "ok"
                                  THEN op_handler(rpc.op_name, rpc.op_input_args)
                                  ELSE NoneVal]]
    /\ pc' = [pc EXCEPT ![t] = "ret"]
    /\ UNCHANGED <<data, nacm, receivers, handlers, lockVars>>

---------------------------------------------------------------------------
(* JsonDatastore.load *)

REntry(d, v) == RDict([domain |-> RStr(d), view |-> RStr(v)])

(* The example document. *)
DocA ==
    RDict([srv |-> RDict([descr |-> RStr("d1"),
                          zone |-> RList(<<REntry("A", "1"), REntry("C", "1")>>),
                          tag |-> RList(<<RStr("x")>>)])])

(* A document that violates the schema, and a file that cannot be read. *)
DocBad == RDict([srv |-> RDict([descr |-> RStr("d1"), zone |-> RStr("A")])])
Docs == {DocA, DocBad, RawNone}

(* Line 415: self._data = None. *)
load(t, doc) ==
    /\ pc[t] = "idle"
    /\ data' = NoneVal
    /\ frame' = [frame EXCEPT ![t] =
            [IdleFrame EXCEPT !.op = "load", !.value = doc, !.root0 = data]]
    /\ pc' = [pc EXCEPT ![t] = "load"]
    /\ UNCHANGED <<nacm, receivers, handlers, lockVars, ncalls>>

(* Variant: a load that fails puts the old tree back. *)
load_from_raw_keep(t) ==
    /\ pc[t] = "load"
    /\ LET c == from_raw(<<>>, frame[t].value)
       IN /\ data' = IF c.err = "" THEN c.v ELSE frame[t].root0
          /\ frame' = [frame EXCEPT ![t].out = IF c.err = "" THEN "ok" ELSE "LoadError"]
    /\ pc' = [pc EXCEPT ![t] = "ret"]
    /\ UNCHANGED <<nacm, receivers, handlers, lockVars, ncalls>>

(* Lines 416-417: open, json.load and from_raw; _data is assigned when all *)
(* three succeed.                                                          *)
load_from_raw(t) ==
    /\ pc[t] = "load"
    /\ LET c == from_raw(<<>>, frame[t].value)
       IN /\ data' = IF c.err = "" THEN c.v ELSE data
          /\ frame' = [frame EXCEPT ![t].out = IF c.err = "" THEN "ok" ELSE "LoadError"]
    /\ pc' = [pc EXCEPT ![t] = "ret"]
    /\ UNCHANGED <<nacm, receivers, handlers, lockVars, ncalls>>

---------------------------------------------------------------------------
(* lock_data / unlock_data *)

(* Line 387: username or "(unknown)". *)
HolderName(username) ==
    IF username = NoUser \/ username = "" THEN "(unknown)" ELSE username

(* Line 385: self._data_lock.acquire(blocking=blocking, timeout=1).        *)
(* threading.Lock.acquire refuses a timeout together with blocking=False:  *)
(* it raises ValueError whatever the state of the lock.  A blocking call   *)
(* starts to wait.                                                         *)
lock_data(t, username, blocking) ==
    /\ pc[t] = "idle"
    /\ frame' = [frame EXCEPT ![t] =
            [IdleFrame EXCEPT !.op = "lock", !.rpc.username = username,
                              !.blocking = blocking, !.root0 = data,
                              !.held0 = lockHeld, !.user0 = lockUser,
                              !.out = IF blocking THEN "" ELSE "ValueError"]]
    /\ pc' = [pc EXCEPT ![t] = IF blocking THEN "acquire" ELSE "ret"]
    /\ UNCHANGED <<data, nacm, receivers, handlers, lockVars, ncalls>>

(* The blocking acquire gets the lock: ret is True. *)
lock_acquired(t) ==
    /\ pc[t] = "acquire"
    /\ ~lockHeld
    /\ lockHeld' = TRUE
    /\ lockOwner' = t
    /\ pc' = [pc EXCEPT ![t] = "locked"]
    /\ UNCHANGED <<data, nacm, receivers, handlers, lockUser, frame, ncalls>>

(* The second of waiting ends with the lock still held: ret is False. *)
lock_timeout(t) ==
    /\ pc[t] = "acquire"
    /\ lockHeld
    /\ pc' = [pc EXCEPT ![t] = "busy"]
    /\ UNCHANGED <<data, nacm, receivers, handlers, lockVars, frame, ncalls>>

(* Line 387: record the holder.  lock_data returns; called from save      *)
(* (line 421), save goes on to json.dump.                                  *)
lock_record(t) ==
    /\ pc[t] = "locked"
    /\ lockUser' = HolderName(frame[t].rpc.username)
    /\ frame' = [frame EXCEPT ![t].out = IF frame[t].op = "save" THEN "" ELSE "ok"]
    /\ pc' = [pc EXCEPT ![t] = IF frame[t].op = "save" THEN "dump" ELSE "ret"]
    /\ UNCHANGED <<data, nacm, receivers, handlers, lockHeld, lockOwner, ncalls>>

(* Lines 390-396: raise DataLockError naming self._lock_username. *)
lock_busy(t) ==
    /\ pc[t] = "busy"
    /\ frame' = [frame EXCEPT ![t].out = "LockBusy", ![t].msg = lockUser]
    /\ pc' = [pc EXCEPT ![t] = "ret"]
    /\ UNCHANGED <<data, nacm, receivers, handlers, lockVars, ncalls>>

(* Line 400: self._data_lock.release(); RuntimeError on a free lock. *)
unlock_data(t) ==
    /\ pc[t] = "idle"
    /\ frame' = [frame EXCEPT ![t] =
            [IdleFrame EXCEPT !.op = "unlock", !.root0 = data,
                              !.held0 = lockHeld, !.user0 = lockUser,
                              !.out = IF lockHeld THEN "" ELSE "RuntimeError"]]
    /\ pc' = [pc EXCEPT ![t] = IF lockHeld THEN "released" ELSE "ret"]
    /\ lockHeld' = FALSE
    /\ lockOwner' = ""
    /\ UNCHANGED <<data, nacm, receivers, handlers, lockUser, ncalls>>

(* Line 402: self._lock_username = None. *)
unlock_clear(t) ==
    /\ pc[t] = "released"
    /\ lockUser' = NoUser
    /\ frame' = [frame EXCEPT ![t].out = "ok"]
    /\ pc' = [pc EXCEPT ![t] = "ret"]
    /\ UNCHANGED <<data, nacm, receivers, handlers, lockHeld, lockOwner, ncalls>>

---------------------------------------------------------------------------
(* JsonDatastore.save *)

(* Lines 420-421: open the file, then lock_data("json_save"), a blocking   *)
(* acquire.                                                                *)
save(t) ==
    /\ pc[t] = "idle"
    /\ ncalls < MaxCalls
    /\ ncalls' = ncalls + 1
    /\ frame' = [frame EXCEPT ![t] =
            [IdleFrame EXCEPT !.op = "save", !.rpc.username = "json_save",
                              !.blocking = TRUE, !.root0 = data,
                              !.held0 = lockHeld, !.user0 = lockUser]]
    /\ pc' = [pc EXCEPT ![t] = "acquire"]
    /\ UNCHANGED <<data, nacm, receivers, handlers, lockVars>>

(* Variant: the tree written is the one save saw when it was called. *)
save_dump_stale(t, done) ==
    /\ pc[t] = "dump"
    /\ IF done
       THEN /\ frame' = [frame EXCEPT ![t].snap = frame[t].root0]
            /\ pc' = [pc EXCEPT ![t] = "dumped"]
       ELSE /\ frame' = [frame EXCEPT ![t].out = "SaveError"]
            /\ pc' = [pc EXCEPT ![t] = "ret"]
    /\ UNCHANGED <<data, nacm, receivers, handlers, lockVars, ncalls>>

(* Line 422: json.dump(self._data, jfd).  The reference is read once and   *)
(* the tree it names is immutable.  The dump can raise (a value json       *)
(* cannot encode, an error of the file); the exception leaves save at      *)
(* once.                                                                   *)
save_dump(t, done) ==
    /\ pc[t] = "dump"
    /\ IF done
       THEN /\ frame' = [frame EXCEPT ![t].snap = data]
            /\ pc' = [pc EXCEPT ![t] = "dumped"]
       ELSE /\ frame' = [frame EXCEPT ![t].out = "SaveError"]
            /\ pc' = [pc EXCEPT ![t] = "ret"]
    /\ UNCHANGED <<data, nacm, receivers, handlers, lockVars, ncalls>>

(* Line 423: unlock_data(), its release (line 400). *)
save_release(t) ==
    /\ pc[t] = "dumped"
    /\ frame' = [frame EXCEPT ![t].out = IF lockHeld THEN "" ELSE "RuntimeError"]
    /\ pc' = [pc EXCEPT ![t] = IF lockHeld THEN "released" ELSE "ret"]
    /\ lockHeld' = FALSE
    /\ lockOwner' = ""
    /\ UNCHANGED <<data, nacm, receivers, handlers, lockUser, ncalls>>

---------------------------------------------------------------------------
(* Inputs *)

Rpc(u, path, fmt, skip, op) ==
    [username |-> u, path |-> path, path_format |-> fmt,
     skip_nacm_check |-> skip, op_name |-> op, op_input_args |-> NoneVal]

Call(rpc, value, insert, point) ==
    [rpc |-> rpc, value |-> value, insert |-> insert, point |-> point]

UrlPaths == {"/srv", "/srv/descr", "/srv/zone", "/srv/zone=A,1", "/srv/zone=B,1",
             "/srv/tag", "/srv/stats", "/nosuch"}
XPaths == {"/srv/zone[1]", "/srv/zone[2]"}

DataRpcs ==
    { Rpc(u, p, "URL", FALSE, "") : u \in Users, p \in UrlPaths }
    \cup { Rpc(u, p, "XPATH", FALSE, "") : u \in Users, p \in XPaths }
    \cup { Rpc("guest", "/srv", "URL", TRUE, "") }

OpArgs == { NoneVal, Obj([x |-> Leaf("1")]) }

OpRpcs ==
    { [Rpc(u, "", "URL", sk, op) EXCEPT !.op_input_args = a] :
          u \in Users, sk \in BOOLEAN, op \in {"op1", "nop"}, a \in OpArgs }

(* Payloads of Create that name a list or leaf-list of /srv. *)
EntryValues ==
    { RDict([zone |-> REntry("A", "2")]),
      RDict([zone |-> REntry("B", "1")]),
      RDict([tag |-> RStr("y")]) }

(* Other payloads of Create: a singular member, a member the schema does   *)
(* not know, a value of the wrong shape, no member, two members.           *)
MemberValues ==
    { RDict([descr |-> RStr("d2")]),
      RDict([bogus |-> RStr("x")]),
      RDict([zone |-> RStr("A")]),
      RDict(<<>>),
      RDict([descr |-> RStr("d2"), tag |-> RStr("y")]) }

Inserts ==
    { <<NoInsert, "">>, <<"first", "">>, <<"last", "">>, <<"before", "C">>,
      <<"after", "A">>, <<"before", "Z">>, <<"middle", "">> }

CreateCalls ==
    { Call(Rpc(u, "/srv", "URL", FALSE, ""), v, i[1], i[2]) :
          u \in Users, v \in EntryValues, i \in Inserts }
    \cup { Call(r, v, NoInsert, "") :
          r \in { x \in DataRpcs : x.path \in {"/srv", "/srv/zone=B,1"} },
          v \in MemberValues }
    \cup { Call(r, RDict([descr |-> RStr("d2")]), NoInsert, "") :
          r \in { x \in DataRpcs : x.path \in {"/srv/descr", "/nosuch"} } }

UpdateValues ==
    { RStr("d2"),
      REntry("B", "2"),
      RList(<<REntry("B", "1")>>) }

UpdateCalls ==
    { Call(r, v, NoInsert, "") :
          r \in { x \in DataRpcs : x.path \in {"/srv/descr", "/srv/zone", "/srv/zone=A,1",
                                               "/srv/zone[2]", "/nosuch", "/srv/zone=B,1"} },
          v \in UpdateValues }

---------------------------------------------------------------------------
(* One caller: no two methods overlap. *)

Step(t) ==
    \/ \E c \in CreateCalls : create_node_rpc(t, c.rpc, c.value, c.insert, c.point)
    \/ \E c \in UpdateCalls : update_node_rpc(t, c.rpc, c.value)
    \/ \E r \in DataRpcs : delete_node_rpc(t, r)
    \/ \E r \in DataRpcs : get_node_rpc(t, r)
    \/ \E r \in OpRpcs : invoke_op_rpc(t, r)
    \/ Publish(t)
    \/ \E f \in 0..Cardinality(Listeners) : notify_edit(t, f)
    \/ read_state_root(t)
    \/ read_node(t)
    \/ \E d \in Docs : load(t, d)
    \/ load_from_raw(t)
    \/ Return(t)
    \/ register_nacm(t)
    \/ \E sn \in {<<"srv", "zone">>} : add_schema_node(t, "L1", sn)

Next == Step("t1")

Spec == Init /\ [][Next]_vars

---------------------------------------------------------------------------
(* The lock alone: one caller takes and gives back the lock under several  *)
(* names.                                                                  *)

LockUsers == {"h1", "h2", NoUser}

LockStep(t) ==
    \/ \E u \in LockUsers, b \in BOOLEAN : lock_data(t, u, b)
    \/ lock_acquired(t)
    \/ lock_timeout(t)
    \/ lock_record(t)
    \/ lock_busy(t)
    \/ unlock_data(t)
    \/ unlock_clear(t)
    \/ Return(t)

NextLock == LockStep("t1")

SpecLock == Init /\ [][NextLock]_vars

---------------------------------------------------------------------------
(* Listeners: the listeners connect before the document is loaded, then    *)
(* one caller edits.                                                       *)

NotifyNodes == {<<>>, <<"srv">>, <<"srv", "zone">>, <<"srv", "tag">>}

NotifyCreates ==
    { Call(Rpc("admin", "/srv", "URL", FALSE, ""), RDict([tag |-> RStr("y")]), "last", "") }

NotifyUpdates ==
    { Call(Rpc("admin", "/srv/zone=A,1", "URL", FALSE, ""), REntry("B", "2"), NoInsert, ""),
      Call(Rpc("admin", "/srv/descr", "URL", FALSE, ""), RStr("d2"), NoInsert, "") }

NotifyStep(t) ==
    \/ \E l \in Listeners, sn \in {x \in NotifyNodes : data = NoneVal} :
            add_schema_node(t, l, sn)
    \/ \E d \in {x \in {DocA} : data = NoneVal} : load(t, d)
    \/ load_from_raw(t)
    \/ \E c \in NotifyCreates : create_node_rpc(t, c.rpc, c.value, c.insert, c.point)
    \/ \E c \in NotifyUpdates : update_node_rpc(t, c.rpc, c.value)
    \/ Publish(t)
    \/ \E f \in 0..Cardinality(Listeners) : notify_edit(t, f)
    \/ Return(t)

NextNotify == NotifyStep("t1")

SpecNotify == Init /\ [][NextNotify]_vars

---------------------------------------------------------------------------
(* Two callers whose methods overlap, with the lock. *)

ConcCreates ==
    { Call(Rpc("admin", "/srv", "URL", FALSE, ""), v, "last", "") :
          v \in { RDict([zone |-> REntry("B", "1")]), RDict([tag |-> RStr("y")]) } }

ConcUpdates ==
    { Call(Rpc("admin", "/srv/descr", "URL", FALSE, ""), RStr("d2"), NoInsert, "") }

ConcDeletes == { Rpc("admin", "/srv/tag", "URL", FALSE, "") }

ConcStep(t) ==
    \/ \E d \in {x \in {DocA} : data = NoneVal} : load(t, d)
    \/ load_from_raw(t)
    \/ \E c \in ConcCreates : create_node_rpc(t, c.rpc, c.value, c.insert, c.point)
    \/ \E c \in ConcUpdates : update_node_rpc(t, c.rpc, c.value)
    \/ \E r \in ConcDeletes : delete_node_rpc(t, r)
    \/ Publish(t)
    \/ \E f \in 0..Cardinality(Listeners) : notify_edit(t, f)
    \/ \E u \in {"h1"}, b \in BOOLEAN : lock_data(t, u, b)
    \/ lock_acquired(t)
    \/ lock_timeout(t)
    \/ lock_record(t)
    \/ lock_busy(t)
    \/ unlock_data(t)
    \/ unlock_clear(t)
    \/ Return(t)

NextConc == \E t \in Threads : ConcStep(t)

SpecConc == Init /\ [][NextConc]_vars

---------------------------------------------------------------------------
(* Two callers that save, edit and take the lock; a caller gives back only *)
(* a lock it took.                                                         *)

SaveUpdates ==
    { Call(Rpc("admin", "/srv/descr", "URL", FALSE, ""), RStr("d2"), NoInsert, "") }

SaveDeletes == { Rpc("admin", "/srv/tag", "URL", FALSE, "") }

SaveStep(t) ==
    \/ \E d \in {x \in {DocA} : data = NoneVal} : load(t, d)
    \/ load_from_raw(t)
    \/ \E c \in SaveUpdates : update_node_rpc(t, c.rpc, c.value)
    \/ \E r \in SaveDeletes : delete_node_rpc(t, r)
    \/ Publish(t)
    \/ \E f \in 0..Cardinality(Listeners) : notify_edit(t, f)
    \/ save(t)
    \/ \E done \in BOOLEAN : save_dump(t, done)
    \/ save_release(t)
    \/ \E u \in {"h1"} : lock_data(t, u, TRUE)
    \/ lock_acquired(t)
    \/ lock_timeout(t)
    \/ lock_record(t)
    \/ lock_busy(t)
    \/ \E x \in {y \in {t} : lockOwner = t} : unlock_data(x)
    \/ unlock_clear(t)
    \/ Return(t)

NextSave == \E t \in Threads : SaveStep(t)

SpecSave == Init /\ [][NextSave]_vars

---------------------------------------------------------------------------
(* Two callers that take the lock, each under its own name, and give back  *)
(* only a lock they took.                                                  *)

UserOf(t) == IF t = "t1" THEN "h1" ELSE "h2"

LockConcStep(t) ==
    \/ \E u \in {UserOf(t)} : lock_data(t, u, TRUE)
    \/ lock_acquired(t)
    \/ lock_timeout(t)
    \/ lock_record(t)
    \/ lock_busy(t)
    \/ \E x \in {y \in {t} : lockOwner = t} : unlock_data(x)
    \/ unlock_clear(t)
    \/ Return(t)

NextLockConc == \E t \in Threads : LockConcStep(t)

SpecLockConc == Init /\ [][NextLockConc]_vars

---------------------------------------------------------------------------
(* Properties *)

Returned(t) == pc[t] = "ret"
Mutating == {"create", "update", "delete"}
Committed == {"ok", "ListenerError"}
TypedFailures ==
    {"InvalidPath", "NotFound", "InvalidPayload", "TypeMismatch",
     "DuplicateEntry", "AccessDenied"}

(* The call's path parses and the node it names is in the tree the call    *)
(* started from.                                                           *)
TargetExists(f) ==
    /\ parse_ii(f.rpc.path, f.rpc.path_format).err = ""
    /\ goto(f.root0, f.ii).err = ""

(* The policy engine is registered and denies the call's permission. *)
Denied(f) == nacm /\ NacmDeny(f.rpc.username, f.op)

(* The schema nodes notify_edit visits for ii: the node of ii, then each   *)
(* ancestor up to the schema root.                                         *)
Chain(sn) == [i \in 1..(Len(sn) + 1) |-> SubSeq(sn, 1, Len(sn) + 1 - i)]

(* C1: a Create, Update or Delete that fails with InvalidPath, NotFound,   *)
(* InvalidPayload, TypeMismatch, DuplicateEntry or AccessDenied, with no   *)
(* other call running, leaves the published root as it was before the     *)
(* call; until a call has passed all its checks the root is untouched.     *)
C1_FailedMutationKeepsRoot ==
    \A t \in Threads :
        /\ (Returned(t) /\ frame[t].op \in Mutating /\ frame[t].out \in TypedFailures)
              => data = frame[t].root0
        /\ (pc[t] = "publish" /\ frame[t].op \in Mutating) => data = frame[t].root0

C1_Witness ==
    \E t \in Threads :
        /\ Returned(t) /\ frame[t].op = "update" /\ frame[t].out = "InvalidPayload"
        /\ TargetExists(frame[t])
        /\ data = frame[t].root0 /\ data # NoneVal

(* C2: with the policy engine registered and denying the permission of a   *)
(* Create, Update or Delete whose target exists, the call fails with       *)
(* AccessDenied, the root equals the root before the call and no listener  *)
(* is invoked.                                                             *)
C2_DeniedMutationRefused ==
    \A t \in Threads :
        (frame[t].op \in Mutating /\ Denied(frame[t]) /\ TargetExists(frame[t]))
            => /\ Returned(t)
               /\ frame[t].out = "AccessDenied"
               /\ data = frame[t].root0
               /\ frame[t].visited = <<>> /\ frame[t].log = <<>>

C2_Witness ==
    \E t \in Threads :
        /\ Returned(t) /\ frame[t].op = "update" /\ frame[t].out = "AccessDenied"
        /\ TargetExists(frame[t])
        /\ receivers[SchemaOf(frame[t].ii)] # <<>>

(* C3: a Read that fails with AccessDenied or NoStateHandler leaves the    *)
(* published root unchanged.                                               *)
C3_FailedReadKeepsRoot ==
    \A t \in Threads :
        (Returned(t) /\ frame[t].op = "read"
            /\ frame[t].out \in {"AccessDenied", "NoStateHandler"})
            => data = frame[t].root0

(* C4: with the lock held under the name h1, lock_data(h2) fails with      *)
(* LockBusy naming h1, without blocking at once and with blocking after    *)
(* the timeout; with the lock free, lock_data(h2) succeeds with either     *)
(* flag and h2 is recorded as the holder.                                  *)
C4_LockProtocol ==
    \A t \in Threads :
        (Returned(t) /\ frame[t].op = "lock") =>
            IF frame[t].held0
            THEN frame[t].out = "LockBusy" /\ frame[t].msg = frame[t].user0
            ELSE /\ frame[t].out = "ok"
                 /\ lockHeld
                 /\ lockUser = HolderName(frame[t].rpc.username)

(* C5: the assignment of the new root never waits for the lock: a call     *)
(* that has computed its tree can always assign it, and the assignment     *)
(* replaces the root by the tree the call computed from the root it read,  *)
(* whatever was assigned in between.                                       *)
C5_PublishIgnoresLock ==
    /\ [](\A t \in Threads : pc[t] = "publish" => ENABLED Publish(t))
    /\ [][\A t \in Threads :
            (pc[t] = "publish" /\ pc'[t] # "publish") => data' = frame[t].loc]_vars

(* Two overlapping mutations, begun from the same root while the lock was  *)
(* held under another name, both succeed; the root is the tree of one of   *)
(* them and the change of the other is not in it.                          *)
C5_Witness ==
    \E t, o \in Threads :
        /\ t # o
        /\ Returned(t) /\ Returned(o)
        /\ frame[t].op = "create" /\ frame[o].op = "update"
        /\ frame[t].out = "ok" /\ frame[o].out = "ok"
        /\ frame[t].held0 /\ frame[o].held0 /\ lockHeld /\ lockUser = "h1"
        /\ frame[t].root0 = frame[o].root0
        /\ frame[o].loc # frame[o].root0
        /\ data = frame[t].loc
        /\ ValAt(data, <<MStep("srv"), MStep("descr")>>)
              = ValAt(frame[t].root0, <<MStep("srv"), MStep("descr")>>)
        /\ ValAt(frame[o].loc, <<MStep("srv"), MStep("descr")>>)
              # ValAt(data, <<MStep("srv"), MStep("descr")>>)

(* Listener l is connected at schema node sn. *)
Registered(l, sn) == \E i \in 1..Len(receivers[sn]) : receivers[sn][i] = l

(* How many times the log records listener l invoked for schema node sn. *)
Count(log, l, sn) ==
    Cardinality({ i \in 1..Len(log) : log[i].l = l /\ log[i].sn = sn })

C7_PublishedBeforeNotify ==
    \A t \in Threads :
        /\ pc[t] = "notify" => data = frame[t].loc
        /\ \A i \in 1..Len(frame[t].log) : frame[t].log[i].fresh
        /\ (Returned(t) /\ frame[t].op \in {"create", "update"}
                /\ frame[t].out \in Committed) => data = frame[t].loc

C7_Witness ==
    \E t \in Threads :
        /\ Returned(t) /\ frame[t].op = "update" /\ frame[t].out = "ListenerError"
        /\ frame[t].log # <<>>
        /\ data = frame[t].loc /\ data # frame[t].root0

(* C8: listeners are notified exactly when a Create or Update commits: a   *)
(* successful Create or Update makes one notification walk; a Delete, and  *)
(* any call that fails before it commits, makes none.                      *)
C8_NotifiedExactlyOnCommit ==
    \A t \in Threads :
        Returned(t) =>
            /\ (frame[t].op \in {"create", "update"} /\ frame[t].out = "ok")
                  => frame[t].visited = Chain(SchemaOf(frame[t].ii))
            /\ (frame[t].op \notin {"create", "update"} \/ frame[t].out \notin Committed)
                  => frame[t].visited = <<>> /\ frame[t].log = <<>>

C8_Witness ==
    \E t \in Threads :
        /\ Returned(t) /\ frame[t].op = "delete" /\ frame[t].out = "ok"
        /\ data # frame[t].root0
        /\ receivers[SchemaOf(frame[t].ii)] # <<>>

(* The key-tuple of a list entry. *)
KeyTuple(sn, en) == [i \in 1..Len(ListKeys(sn)) |-> en.m[ListKeys(sn)[i]]]

KeyTuples(sn, arr) == { KeyTuple(sn, arr.e[i]) : i \in 1..Len(arr.e) }

DistinctTuples(sn, arr) ==
    \A i, j \in 1..Len(arr.e) :
        KeyTuple(sn, arr.e[i]) = KeyTuple(sn, arr.e[j]) => i = j

(* A Create by f that puts one well-formed entry into the existing list    *)
(* zone of /srv, with a position that can be resolved.                     *)
ListCreate(f) ==
    /\ f.op = "create" /\ f.rpc.path = "/srv" /\ TargetExists(f) /\ ~Denied(f)
    /\ DOMAIN f.value.d = {"zone"}
    /\ "zone" \in DOMAIN ValAt(f.root0, <<MStep("srv")>>).m
    /\ IsArr(ValAt(f.root0, <<MStep("srv"), MStep("zone")>>))
    /\ RawValid(<<"srv", "zone">>, f.value.d["zone"], TRUE)
    /\ \/ f.insert \in {NoInsert, "first", "last"}
       \/ /\ f.insert \in {"before", "after"}
          /\ \E i \in 1..Len(ValAt(f.root0, <<MStep("srv"), MStep("zone")>>).e) :
                ValAt(f.root0, <<MStep("srv"), MStep("zone")>>).e[i].m["domain"]
                    = Leaf(f.point)

HasZone(root) ==
    /\ root # NoneVal
    /\ "srv" \in DOMAIN root.m
    /\ "zone" \in DOMAIN root.m["srv"].m

(* C9: a Create into a list whose entry has the key-tuple of an existing   *)
(* entry fails with DuplicateEntry and leaves the root unchanged; one      *)
(* whose key-tuple differs from every existing entry's is inserted.        *)
C9_DistinctTupleInserted ==
    \A t \in Threads :
        (Returned(t) /\ ListCreate(frame[t])) =>
            LET old == ValAt(frame[t].root0, <<MStep("srv"), MStep("zone")>>)
                nd == RawConv(<<"srv", "zone">>, frame[t].value.d["zone"], TRUE)
            IN IF KeyTuple(<<"srv", "zone">>, nd) \in KeyTuples(<<"srv", "zone">>, old)
               THEN frame[t].out = "DuplicateEntry" /\ data = frame[t].root0
               ELSE /\ frame[t].out \in Committed
                    /\ HasZone(data)
                    /\ \E i \in 1..Len(data.m["srv"].m["zone"].e) :
                          data.m["srv"].m["zone"].e[i] = nd

(* C10: a Create whose lone payload key names an existing member that is   *)
(* not an Array fails with DuplicateEntry, one whose payload does not hold *)
(* exactly one key fails with InvalidPayload (AccessDenied takes           *)
(* precedence for a denied user); both leave the root unchanged.           *)
C10_DuplicateMemberOrBadPayload ==
    \A t \in Threads :
        (Returned(t) /\ frame[t].op = "create" /\ TargetExists(frame[t])) =>
            LET f == frame[t]
                n == ValAt(f.root0, goto(f.root0, f.ii).path)
                names == DOMAIN f.value.d
            IN /\ Cardinality(names) # 1 =>
                    /\ f.out = IF Denied(f) THEN "AccessDenied" ELSE "InvalidPayload"
                    /\ data = f.root0
               /\ (Cardinality(names) = 1 /\ IsObj(n)
                     /\ \E x \in names : x \in DOMAIN n.m /\ ~IsArr(n.m[x])) =>
                    /\ f.out = IF Denied(f) THEN "AccessDenied" ELSE "DuplicateEntry"
                    /\ data = f.root0

C10_Witness ==
    \E t \in Threads :
        /\ Returned(t) /\ frame[t].op = "create" /\ frame[t].out = "DuplicateEntry"
        /\ DOMAIN frame[t].value.d = {"descr"}
        /\ data = frame[t].root0

(* A Create by f of one well-formed entry for the existing list zone of    *)
(* /srv, by a user who is not denied.                                      *)
ListEntryCreate(f) ==
    /\ f.op = "create" /\ f.rpc.path = "/srv" /\ TargetExists(f) /\ ~Denied(f)
    /\ DOMAIN f.value.d = {"zone"}
    /\ "zone" \in DOMAIN ValAt(f.root0, <<MStep("srv")>>).m
    /\ IsArr(ValAt(f.root0, <<MStep("srv"), MStep("zone")>>))
    /\ RawValid(<<"srv", "zone">>, f.value.d["zone"], TRUE)

(* The entries of list zone in root. *)
ZoneEntries(root) == ValAt(root, <<MStep("srv"), MStep("zone")>>).e

(* The positions of the entries whose key equals point. *)
PointMatches(es, point) == { i \in 1..Len(es) : es[i].m["domain"] = Leaf(point) }

IsWithout(new, old, i) ==
    /\ Len(new) = Len(old) - 1
    /\ \A j \in 1..Len(new) : new[j] = IF j < i THEN old[j] ELSE old[j + 1]

(* C12: a Delete whose address does not resolve in the tree fails with     *)
(* NotFound and leaves the root unchanged; a Delete of an array entry, by  *)
(* key or by index, gives a root where exactly that entry is gone, the     *)
(* others keep their order and everything outside the array is as before;  *)
(* a Delete of an object member removes exactly that member.               *)
C12_DeleteExact ==
    \A t \in Threads :
        (Returned(t) /\ frame[t].op = "delete" /\ frame[t].root0 # NoneVal
            /\ parse_ii(frame[t].rpc.path, frame[t].rpc.path_format).err = ""
            /\ ~Denied(frame[t])) =>
            LET f == frame[t]
                g == goto(f.root0, f.ii)
                last == f.ii[Len(f.ii)]
                ppath == SubSeq(g.path, 1, Len(g.path) - 1)
                parent == ValAt(f.root0, ppath)
                pos == IF last.k = "index" THEN last.index + 1
                       ELSE Min(MatchingEntries(parent, last.keys))
            IN /\ g.err = "NotFound" => f.out = "NotFound" /\ data = f.root0
               /\ (g.err = "" /\ last.k \in {"keys", "index"}) =>
                     /\ f.out = "ok"
                     /\ goto(data, SubSeq(f.ii, 1, Len(f.ii) - 1)).err = ""
                     /\ IsArr(ValAt(data, ppath))
                     /\ IsWithout(ValAt(data, ppath).e, parent.e, pos)
                     /\ Put(data, ppath, parent) = f.root0
               /\ (g.err = "" /\ last.k = "member") =>
                     /\ f.out = "ok"
                     /\ IsObj(ValAt(data, ppath))
                     /\ DOMAIN ValAt(data, ppath).m = DOMAIN parent.m \ {last.name}
                     /\ \A x \in DOMAIN ValAt(data, ppath).m :
                           ValAt(data, ppath).m[x] = parent.m[x]
                     /\ Put(data, ppath, parent) = f.root0

(* The first of two entries is deleted by key and the second stays. *)
C12_Witness ==
    \E t \in Threads :
        /\ Returned(t) /\ frame[t].op = "delete" /\ frame[t].out = "ok"
        /\ frame[t].rpc.path = "/srv/zone=A,1"
        /\ Len(ZoneEntries(frame[t].root0)) = 2
        /\ HasZone(data)
        /\ ZoneEntries(data) = <<ZoneEntries(frame[t].root0)[2]>>

(* Save by t is between its acquire and its release. *)
SaveHolds(t) == frame[t].op = "save" /\ pc[t] \in {"locked", "dump", "dumped"}

(* C13: save takes the lock under the name json_save, writes the root and  *)
(* gives the lock back; while save holds the lock no other acquire         *)
(* succeeds; what it writes is the one root that was published at the      *)
(* moment of the dump, between the acquire and the release, whatever       *)
(* Create, Update or Delete do meanwhile.                                  *)
C13_SaveSnapshot ==
    /\ [](\A t \in Threads :
            SaveHolds(t) =>
                /\ lockHeld /\ lockOwner = t
                /\ \A o \in Threads \ {t} :
                      pc[o] # "locked" /\ ~ENABLED lock_acquired(o))
    /\ [][\A t \in Threads :
            frame[t].op = "save" =>
                /\ (pc[t] = "locked" /\ pc'[t] # "locked") => lockUser' = "json_save"
                /\ (pc[t] = "dump" /\ pc'[t] = "dumped") =>
                      frame'[t].snap = data /\ lockHeld /\ lockOwner = t
                /\ (pc[t] = "dumped" /\ pc'[t] # "dumped") => lockOwner' # t]_vars

(* A save has written the loaded tree and returned; an update that began   *)
(* while the lock was held has replaced the root meanwhile.                *)
C13_Witness ==
    \E t, o \in Threads :
        /\ Returned(t) /\ frame[t].op = "save" /\ frame[t].out = "ok"
        /\ frame[t].snap # NoneVal /\ data # frame[t].snap
        /\ frame[o].op = "update" /\ frame[o].held0 /\ frame[o].user0 = "json_save"
        /\ frame[o].root0 = frame[t].snap
        /\ data = frame[o].loc

(* C14: with the policy engine registered and the bypass flag unset, a     *)
(* denied Invoke fails with AccessDenied and the handler is not called;    *)
(* with the flag set, or when not denied, an operation without a handler   *)
(* fails with NoHandler and otherwise the handler is called and its output *)
(* returned as it is; Invoke never replaces the root; the flag does not    *)
(* spare Read, Create, Update or Delete the policy check.                  *)
C14_InvokeGate ==
    \A t \in Threads :
        Returned(t) =>
            LET f == frame[t]
                r == f.rpc
                gated == nacm /\ ~r.skip_nacm_check /\ NacmDeny(r.username, "exec")
            IN /\ (f.op = "invoke" /\ gated) => f.out = "AccessDenied" /\ ~f.called
               /\ (f.op = "invoke" /\ ~gated) =>
                     IF r.op_name \in OpHandlers
                     THEN /\ f.out = "ok" /\ f.called
                          /\ f.ret_data = op_handler(r.op_name, r.op_input_args)
                     ELSE f.out = "NoHandler" /\ ~f.called
               /\ f.op = "invoke" => data = f.root0
               /\ (f.op \in Mutating /\ r.skip_nacm_check /\ Denied(f) /\ TargetExists(f))
                     => f.out = "AccessDenied"
               /\ (f.op = "read" /\ r.skip_nacm_check /\ Denied(f)) => f.out # "ok"

(* A user the policy denies invokes an operation with the bypass flag set  *)
(* and gets the handler's output.                                          *)
C14_Witness ==
    \E t \in Threads :
        /\ Returned(t) /\ frame[t].op = "invoke" /\ frame[t].out = "ok"
        /\ nacm /\ NacmDeny(frame[t].rpc.username, "exec")
        /\ frame[t].rpc.skip_nacm_check
        /\ frame[t].called
        /\ frame[t].ret_data = op_handler("op1", Obj([x |-> Leaf("1")]))

(* C15: after a successful Update the subtree at the address is the        *)
(* converted input as a whole and everything off the path from the address *)
(* to the root is as before; an Update whose address does not resolve      *)
(* fails with NotFound and leaves the root unchanged.                      *)
C15_UpdateReplacesWhole ==
    \A t \in Threads :
        (Returned(t) /\ frame[t].op = "update" /\ frame[t].root0 # NoneVal
            /\ parse_ii(frame[t].rpc.path, frame[t].rpc.path_format).err = ""
            /\ ~Denied(frame[t])) =>
            LET f == frame[t]
                g == goto(f.root0, f.ii)
                entry == f.ii[Len(f.ii)].k # "member"
            IN /\ g.err = "NotFound" => f.out = "NotFound" /\ data = f.root0
               /\ (g.err = "" /\ f.out \in Committed) =>
                     /\ goto(data, f.ii).err = "" \/ entry
                     /\ ValAt(data, g.path) = RawConv(SchemaOf(f.ii), f.value, entry)
                     /\ Put(data, g.path, ValAt(f.root0, g.path)) = f.root0

(* A list of two entries is replaced by a list of one other entry. *)
C15_Witness ==
    \E t \in Threads :
        /\ Returned(t) /\ frame[t].op = "update" /\ frame[t].out = "ok"
        /\ frame[t].rpc.path = "/srv/zone"
        /\ Len(ZoneEntries(frame[t].root0)) = 2
        /\ HasZone(data)
        /\ ZoneEntries(data) = <<RawConv(<<"srv", "zone">>, REntry("B", "1"), TRUE)>>
        /\ data.m["srv"].m["descr"] = frame[t].root0.m["srv"].m["descr"]

(* C16: load drops the current root; a load that fails, on a document that *)
(* violates the schema or cannot be read, leaves no tree at all (not the   *)
(* old root, not a part of the document); a load that succeeds leaves the  *)
(* conversion of the whole document.                                       *)
C16_LoadWholeOrNothing ==
    \A t \in Threads :
        /\ pc[t] = "load" => data = NoneVal
        /\ (Returned(t) /\ frame[t].op = "load") =>
              IF RawValid(<<>>, frame[t].value, FALSE)
              THEN frame[t].out = "ok" /\ data = RawConv(<<>>, frame[t].value, FALSE)
              ELSE frame[t].out = "LoadError" /\ data = NoneVal

(* A datastore that held a tree has none after loading a document that     *)
(* violates the schema in one member.                                      *)
C16_Witness ==
    \E t \in Threads :
        /\ Returned(t) /\ frame[t].op = "load" /\ frame[t].out = "LoadError"
        /\ frame[t].value = DocBad
        /\ frame[t].root0 # NoneVal
        /\ data = NoneVal

(* C17: a Create, Update or Delete by a user whose permission is denied    *)
(* fails with AccessDenied whether or not its target is in the tree.       *)
C17_DeniedBeforeNavigation ==
    \A t \in Threads :
        (Returned(t) /\ frame[t].op \in Mutating /\ Denied(frame[t])
            /\ frame[t].root0 # NoneVal
            /\ parse_ii(frame[t].rpc.path, frame[t].rpc.path_format).err = "")
            => frame[t].out = "AccessDenied"

(* No call is in progress. *)
Quiescent == \A t \in Threads : pc[t] \in {"idle", "ret"}

(* C18: whenever no lock_data or unlock_data is in progress, the recorded  *)
(* holder is set exactly when the lock is held and is the name of the      *)
(* caller that took it last.                                               *)
C18_HolderMatchesLock ==
    Quiescent =>
        /\ lockHeld <=> lockUser # NoUser
        /\ lockHeld => lockUser = UserOf(lockOwner)

(* C19: when save returns or raises, the lock it took has been given back. *)
C19_SaveReleasesLock ==
    \A t \in Threads :
        (Returned(t) /\ frame[t].op = "save") => lockOwner # t

(* C20: after a Create that returns success the root holds the converted   *)
(* input under the named member, as the new member or as one more entry of *)
(* the existing list or leaf-list, and the listeners have been notified.   *)
C20_CreateAddsValue ==
    \A t \in Threads :
        (Returned(t) /\ frame[t].op = "create" /\ frame[t].out = "ok") =>
            LET f == frame[t]
                name == CHOOSE x \in DOMAIN f.value.d : TRUE
                msn == Append(SchemaOf(f.ii), name)
                g0 == goto(f.root0, f.ii)
                g == goto(data, f.ii)
                before == ValAt(f.root0, g0.path)
                parent == ValAt(data, g.path)
            IN /\ g.err = "" /\ IsObj(parent) /\ name \in DOMAIN parent.m
               /\ IF name \in DOMAIN before.m
                  THEN /\ IsArr(parent.m[name])
                       /\ Len(parent.m[name].e) = Len(before.m[name].e) + 1
                       /\ \E i \in 1..Len(parent.m[name].e) :
                             parent.m[name].e[i] = RawConv(msn, f.value.d[name], TRUE)
                  ELSE parent.m[name] = RawConv(msn, f.value.d[name], FALSE)
               /\ f.visited = Chain(SchemaOf(f.ii))

=============================================================================
